---- MODULE Spec2Model ----
(***************************************************************************)
(* State-machine model of the image session of myRealImageDisplay.cpp:     *)
(* ImagePanel (current image, undo history, clipboard, selection, zoom)    *)
(* and the ImageFrame handlers that drive it.                              *)
(*                                                                         *)
(* wxImage is a reference-counted handle: copy construction and assignment *)
(* share the pixel buffer, and GetData() hands out the shared buffer       *)
(* without detaching it.  An image value is therefore a record             *)
(*   [ok, id, w, h, px]                                                    *)
(* where id names the pixel buffer: two handles with the same id are the   *)
(* same buffer, and a write through GetData() is seen by every handle that *)
(* carries that id.  Pixels are one grey intensity in 0..255 (the three    *)
(* channels of the source always carry the same value), kept row-major in  *)
(* px, px[y*w + x + 1] being pixel (x,y).                                  *)
(***************************************************************************)
EXTENDS Integers, Sequences, FiniteSets, TLC

\* ---------------------------------------------------------------- constants
MAX_HISTORY == 16
HEADER_OFFSET == 3072
PIXEL_DEPTH == 4

\* ------------------------------------------------------------------- bounds
\* Dimensions of the legacy raster (2082 x 2217 in the source), scaled down.
WIDTH == 2
HEIGHT == 2
\* Number of SetImage calls a session may make (caps the ghost counter).
MaxSetCalls == 3
\* Number of SetImage calls in the long-history specification.
MaxHistCalls == 19
\* Largest numerator or denominator m_zoomFactor may reach by zooming.
MaxZoomTerm == 150
\* Number of SetImage calls in the copy-and-paste specification.
MaxPasteCalls == 3
\* Width in bits of int (32 in the build), scaled down; long is wider.
IntBits == 6
\* Number of profile points m_radialAvgData keeps in the model.
MaxProfile == 8

\* ------------------------------------------------------------------ helpers
Min(a, b) == IF a < b THEN a ELSE b
Max(a, b) == IF a > b THEN a ELSE b
Clamp(v, lo, hi) == IF v < lo THEN lo ELSE IF v > hi THEN hi ELSE v

RECURSIVE Gcd(_, _)
Gcd(a, b) == IF b = 0 THEN a ELSE Gcd(b, a % b)

\* Rationals n/d (d > 0) in lowest terms stand for the double m_zoomFactor.
Rat(n, d) == LET g == Gcd(n, d) IN IF g = 0 THEN [n |-> 0, d |-> 1] ELSE [n |-> n \div g, d |-> d \div g]
RatLess(a, b) == a.n * b.d < b.n * a.d
RatMul(a, b) == Rat(a.n * b.n, a.d * b.d)
RatMin(a, b) == IF RatLess(b, a) THEN b ELSE a

\* Bitwise operators on unsigned char operands.
RECURSIVE BitAnd(_, _)
BitAnd(a, b) == IF a = 0 \/ b = 0 THEN 0
                ELSE 2 * BitAnd(a \div 2, b \div 2) + (IF a % 2 = 1 /\ b % 2 = 1 THEN 1 ELSE 0)
RECURSIVE BitOr(_, _)
BitOr(a, b) == IF a = 0 THEN b ELSE IF b = 0 THEN a
               ELSE 2 * BitOr(a \div 2, b \div 2) + (IF a % 2 = 1 \/ b % 2 = 1 THEN 1 ELSE 0)
RECURSIVE BitXor(_, _)
BitXor(a, b) == IF a = 0 THEN b ELSE IF b = 0 THEN a
                ELSE 2 * BitXor(a \div 2, b \div 2) + (IF a % 2 # b % 2 THEN 1 ELSE 0)

\* ------------------------------------------------------------------ wxImage
\* A default-constructed (invalid) wxImage: IsOk() is false.
NoImage == [ok |-> FALSE, id |-> 0, w |-> 0, h |-> 0, px |-> << >>]
IsOk(img) == img.ok
MkImage(i, w, h, px) == [ok |-> TRUE, id |-> i, w |-> w, h |-> h, px |-> px]

\* Same dimensions and same pixels (comparison by content, buffers aside).
SameContent(a, b) == a.ok /\ b.ok /\ a.w = b.w /\ a.h = b.h /\ a.px = b.px

\* wxRect
wxRect(x, y, w, h) == [x |-> x, y |-> y, width |-> w, height |-> h]
EmptyRect == wxRect(0, 0, 0, 0)
IsEmpty(r) == r.width <= 0 \/ r.height <= 0
GetRight(r) == r.x + r.width - 1
GetBottom(r) == r.y + r.height - 1


\* --------------------------------------------------- wxImage library calls
\* Source offset (0-based, in pixels) that wxImage::GetSubImage copies
\* sub-image pixel k (0-based, row-major) from: it starts at
\* rect.x + w*rect.y and advances by w per row, whatever the rectangle.
SubSrcIndex(img, rect, k) == (rect.y + (k \div rect.width)) * img.w + rect.x + (k % rect.width)

\* Sub-image pixels whose source offset lies past the end of the buffer:
\* wxImage::GetSubImage accepts GetRight() == width and GetBottom() == height,
\* and the copy then reads past the buffer (an indeterminate value).
SubOutside(img, rect) == {k \in 0 .. (rect.width * rect.height - 1) : SubSrcIndex(img, rect, k) >= img.w * img.h}

\* The checks wxImage::GetSubImage makes before it copies: a valid image and
\* a rectangle with GetRight() <= width and GetBottom() <= height (so one
\* column or row past the edge passes); a rectangle without area cannot be
\* created as an image.
SubImageOk(img, rect) ==
    /\ IsOk(img)
    /\ rect.x >= 0 /\ rect.y >= 0 /\ GetRight(rect) <= img.w /\ GetBottom(rect) <= img.h
    /\ rect.width > 0 /\ rect.height > 0

\* wxImage::GetSubImage(rect) as called at lines 261 and 876: an invalid image
\* when the library's checks fail, else a new buffer i holding the copied
\* pixels; g gives the values read past the end of the buffer.
GetSubImage(img, rect, i, g) ==
    IF ~SubImageOk(img, rect) THEN NoImage
    ELSE MkImage(i, rect.width, rect.height,
                 [k \in 1 .. (rect.width * rect.height) |->
                     IF SubSrcIndex(img, rect, k - 1) >= img.w * img.h THEN g[k - 1]
                     ELSE img.px[SubSrcIndex(img, rect, k - 1) + 1]])

\* wxImage::Rotate90(true): a new w' = h, h' = w image, source pixel (x,y)
\* landing at (h-1-y, x).
Rotate90(img, i) ==
    MkImage(i, img.h, img.w,
            [k \in 1 .. (img.w * img.h) |->
                LET tx == (k - 1) % img.h
                    ty == (k - 1) \div img.h
                IN img.px[(img.h - 1 - tx) * img.w + ty + 1]])

\* wxImage::Mirror(horizontally): a new image; horizontally = TRUE reverses
\* every row, FALSE reverses the order of the rows.
Mirror(img, horizontally, i) ==
    MkImage(i, img.w, img.h,
            [k \in 1 .. (img.w * img.h) |->
                LET x == (k - 1) % img.w
                    y == (k - 1) \div img.w
                IN IF horizontally THEN img.px[y * img.w + (img.w - 1 - x) + 1]
                   ELSE img.px[(img.h - 1 - y) * img.w + x + 1]])

\* Every pixel of img has the same intensity.
Uniform(img) == \A k \in 1 .. Len(img.px) : img.px[k] = img.px[1]

\* wxImage::Scale(w, h, wxIMAGE_QUALITY_HIGH) on an image of one intensity: a
\* new w x h buffer; box averaging and bicubic resampling both return that
\* intensity for every pixel.
Scale(img, w, h, i) == MkImage(i, w, h, [k \in 1 .. (w * h) |-> img.px[1]])

\* ------------------------------------------------------- int and the circle
INT_MAX == (2 ^ (IntBits - 1)) - 1
INT_MIN == 0 - (2 ^ (IntBits - 1))
\* The conversion (int)v of a long, and the value an int sum wraps to.
ToInt(v) == ((v - INT_MIN) % (2 ^ IntBits)) + INT_MIN

\* The offsets (lround(R cos theta_k), lround(R sin theta_k)), k = 0 .. N-1 with
\* N = max(8, lround(2 pi R)) and theta_k = 2 pi k / N, that
\* CircularAverageNearest adds to the centre, in the order of its loop.
CircleOffsets(R) ==
    CASE R = 1 -> <<<<1, 0>>, <<1, 1>>, <<0, 1>>, <<-1, 1>>, <<-1, 0>>, <<-1, -1>>, <<0, -1>>, <<1, -1>>>>
      [] R = 2 -> <<<<2, 0>>, <<2, 1>>, <<1, 2>>, <<0, 2>>, <<-1, 2>>, <<-1, 1>>, <<-2, 0>>, <<-2, 0>>,
                <<-1, -1>>, <<-1, -2>>, <<0, -2>>, <<1, -2>>, <<2, -1>>>>
      [] R = 3 -> <<<<3, 0>>, <<3, 1>>, <<2, 2>>, <<2, 3>>, <<1, 3>>, <<0, 3>>, <<-1, 3>>, <<-2, 2>>,
                <<-3, 1>>, <<-3, 0>>, <<-3, 0>>, <<-3, -1>>, <<-2, -2>>, <<-1, -3>>, <<0, -3>>, <<1, -3>>,
                <<2, -3>>, <<2, -2>>, <<3, -1>>>>
      [] R = 4 -> <<<<4, 0>>, <<4, 1>>, <<4, 2>>, <<3, 3>>, <<2, 3>>, <<1, 4>>, <<0, 4>>, <<-1, 4>>,
                <<-2, 4>>, <<-3, 3>>, <<-3, 2>>, <<-4, 1>>, <<-4, 1>>, <<-4, -1>>, <<-4, -1>>, <<-3, -2>>,
                <<-3, -3>>, <<-2, -4>>, <<-1, -4>>, <<0, -4>>, <<1, -4>>, <<2, -3>>, <<3, -3>>, <<4, -2>>,
                <<4, -1>>>>
      [] R = 5 -> <<<<5, 0>>, <<5, 1>>, <<5, 2>>, <<4, 3>>, <<3, 4>>, <<3, 4>>, <<2, 5>>, <<1, 5>>,
                <<0, 5>>, <<-1, 5>>, <<-2, 4>>, <<-3, 4>>, <<-4, 3>>, <<-4, 2>>, <<-5, 1>>, <<-5, 1>>,
                <<-5, -1>>, <<-5, -1>>, <<-4, -2>>, <<-4, -3>>, <<-3, -4>>, <<-2, -4>>, <<-1, -5>>, <<0, -5>>,
                <<1, -5>>, <<2, -5>>, <<3, -4>>, <<3, -4>>, <<4, -3>>, <<5, -2>>, <<5, -1>>>>

\* -------------------------------------------------------------- input sets
\* Viewport (client) sizes of the panel.
PanelSizes == {<<0, 0>>, <<4, 3>>}
\* Viewport sizes of a frame shrunk to almost nothing.
ZoomPanelSizes == {<<1, 1>>, <<4, 3>>}
\* Sizes entered in the Resize Image dialog (width, height).
ResizeDims == {<<0, 1>>, <<150, 1>>}
\* Client size of the panel while the frame is being constructed.
InitialPanelSize == <<4, 3>>
\* Pointer positions delivered by mouse events (unscrolled coordinates).
PointerPts == {<<-1, 0>>, <<1, 1>>, <<3, 3>>}
\* Pointer positions whose drags select regions inside the image.
CopyPts == {<<-1, 0>>, <<1, 1>>}
\* Destination points and blend modes handed to PasteClipboard.
DestPts == {<<-1, 0>>, <<1, 1>>, <<10, 10>>}
BlendModes == {"AND", "OR", "XOR", "BLEND"}
\* Plugin libraries picked in the Select Plugin dialog: whether the library
\* loads, whether it exports ApplyFilter, how the filter writes the image it
\* is handed ("none", "data": through GetData(), "copy": through a call that
\* detaches the handle first, such as SetRGB, or by assigning a new image),
\* and whether it throws after writing.
Plugins ==
    { [loaded |-> FALSE, symbol |-> FALSE, writes |-> "none", raises |-> FALSE],
      [loaded |-> TRUE, symbol |-> FALSE, writes |-> "none", raises |-> FALSE] }
    \cup { [loaded |-> TRUE, symbol |-> TRUE, writes |-> wr, raises |-> r] :
              wr \in {"none", "data", "copy"}, r \in BOOLEAN }
\* The pixels a filter leaves: the sample filter inverts pixel (0,0).
FilterPixels(px) == [px EXCEPT ![1] = 255 - @]
\* Values a read past the end of a pixel buffer may deliver.
GarbageVals == {0, 201}

\* (B, G, R, A) pixel groups found in raster files.
FilePixels == << <<255, 255, 255, 255>>, <<15, 15, 15, 0>>, <<240, 240, 240, 255>>, <<0, 0, 255, 7>> >>
\* Pixel data of the sample files: a varied raster and a uniform one.
FileData(pattern) == [k \in 1 .. (WIDTH * HEIGHT) |->
                        IF pattern = "varied" THEN FilePixels[((k - 1) % 4) + 1] ELSE FilePixels[1]]
\* Raster files: sz is the file size, gcount the bytes the read delivers.
Files == { [sz |-> 0, gcount |-> 0, data |-> FileData("uniform")],
           [sz |-> HEADER_OFFSET + WIDTH * HEIGHT * PIXEL_DEPTH - 1, gcount |-> 0, data |-> FileData("varied")],
           [sz |-> HEADER_OFFSET + WIDTH * HEIGHT * PIXEL_DEPTH, gcount |-> WIDTH * HEIGHT * PIXEL_DEPTH - 1, data |-> FileData("varied")],
           [sz |-> HEADER_OFFSET + WIDTH * HEIGHT * PIXEL_DEPTH, gcount |-> WIDTH * HEIGHT * PIXEL_DEPTH, data |-> FileData("varied")],
           [sz |-> HEADER_OFFSET + WIDTH * HEIGHT * PIXEL_DEPTH + 5, gcount |-> WIDTH * HEIGHT * PIXEL_DEPTH, data |-> FileData("uniform")] }

\* grey = round(0.299 r + 0.587 g + 0.114 b) of a (B, G, R, A) group.
Grey(p) == (299 * p[3] + 587 * p[2] + 114 * p[1] + 500) \div 1000

\* -------------------------------------------------------------------- state
VARIABLES
    pc,             \* "ctor" while ImageFrame's constructor has not loaded the file, then "run"
    m_originalImg,  \* ImagePanel::m_originalImg, the current image
    m_history,      \* ImagePanel::m_history, oldest first
    m_clipboard,    \* ImagePanel::m_clipboard
    m_selection,    \* ImagePanel::m_selection
    m_selecting,    \* ImagePanel::m_selecting
    m_startPoint,   \* ImagePanel::m_startPoint
    m_zoomFactor,   \* ImagePanel::m_zoomFactor
    m_fitMode,      \* ImagePanel::m_fitMode
    m_bitmap,       \* ImagePanel::m_bitmap, the scaled image on display, with the factor that scaled it
    panelSize,      \* GetClientSize() of the panel
    notice,         \* the message box the last handler raised, "" if none
    lastPaste,      \* history variable: the paste the last handler made, if it made one
    calls,          \* history variable: the calls of SetImage and Undo so far
    m_radialAvgData, \* ImageFrame::m_radialAvgData, the radial profile (its first MaxProfile points)
    sweep           \* the input and the loop variable R of the last OnRadialSweep, with the parity of its iterations

vars == <<pc, m_originalImg, m_history, m_clipboard, m_selection, m_selecting,
          m_startPoint, m_zoomFactor, m_fitMode, panelSize, notice, lastPaste, calls,
          m_radialAvgData, sweep, m_bitmap>>

\* Program state proper (everything but the history variables and notice).
sessionVars == <<m_originalImg, m_history, m_clipboard, m_selection, m_selecting,
                 m_startPoint, m_zoomFactor, m_fitMode, m_bitmap>>

\* ------------------------------------------------------- history variables
\* lastPaste when the last handler pasted nothing; tried tells that it was
\* PasteClipboard all the same.
NoPaste == [tried |-> FALSE, done |-> FALSE, mode |-> "", dest |-> <<0, 0>>, pre |-> NoImage, clip |-> NoImage, xorOrig |-> NoImage]

\* -------------------------------------------------------------- ImagePanel
\* Buffers some handle of the panel refers to, and the next unused one.
UsedIds == {m_originalImg.id, m_clipboard.id} \cup {m_history[i].id : i \in 1 .. Len(m_history)}
FreshId == CHOOSE i \in 1 .. (MAX_HISTORY + 3) : i \notin UsedIds /\ \A j \in 1 .. (i - 1) : j \in UsedIds

\* A write through GetData() of buffer id, as seen through handle img.
Store(img, id, px) == IF img.ok /\ img.id = id THEN [img EXCEPT !.px = px] ELSE img
StoreAll(hist, id, px) == [i \in 1 .. Len(hist) |-> Store(hist[i], id, px)]

\* m_zoomFactor after ApplyZoom() on image img.
ApplyZoom(img, zoom, fit) ==
    IF ~IsOk(img) THEN zoom
    ELSE IF fit /\ img.w > 0 /\ img.h > 0
         THEN LET scale == RatMin(Rat(panelSize[1], img.w), Rat(panelSize[2], img.h))
              IN IF scale.n <= 0 THEN Rat(1, 1) ELSE scale
         ELSE zoom

\* m_bitmap before any image was scaled.
NoBitmap == [ok |-> FALSE, w |-> 0, h |-> 0, zoom |-> [n |-> 1, d |-> 1]]

\* m_bitmap after ApplyZoom() on image img: untouched without an image, else
\* the image scaled to (int)(w * zoom) x (int)(h * zoom) with the factor
\* ApplyZoom ends with. Scale() returns an invalid image for a size without
\* area, and the bitmap made of it is invalid.
ApplyZoomBitmap(img, zoom, fit) ==
    IF ~IsOk(img) THEN m_bitmap
    ELSE LET z == ApplyZoom(img, zoom, fit)
             newW == (img.w * z.n) \div z.d
             newH == (img.h * z.n) \div z.d
         IN IF newW > 0 /\ newH > 0 THEN [ok |-> TRUE, w |-> newW, h |-> newH, zoom |-> z]
            ELSE [ok |-> FALSE, w |-> 0, h |-> 0, zoom |-> z]

\* ZoomFit() when the current image is img.
ZoomFitOn(img) ==
    /\ m_fitMode' = TRUE
    /\ m_zoomFactor' = ApplyZoom(img, m_zoomFactor, TRUE)
    /\ m_bitmap' = ApplyZoomBitmap(img, m_zoomFactor, TRUE)

\* PushHistory that never erases: the history grows without bound.
PushHistoryNoEvict(cur, hist) == IF IsOk(cur) THEN Append(hist, cur) ELSE hist

\* PushHistory that erases as soon as the history reaches MAX_HISTORY entries.
PushHistoryEarlyEvict(cur, hist) ==
    IF IsOk(cur)
    THEN LET pushed == Append(hist, cur)
         IN IF Len(pushed) >= MAX_HISTORY THEN Tail(pushed) ELSE pushed
    ELSE hist

\* PushHistory that erases the newest entry instead of the oldest.
PushHistoryDropNewest(cur, hist) ==
    IF IsOk(cur)
    THEN LET pushed == Append(hist, cur)
         IN IF Len(pushed) > MAX_HISTORY THEN SubSeq(pushed, 1, Len(pushed) - 1) ELSE pushed
    ELSE hist

\* The history SetImage leaves when entered with current image cur.
PushHistory(cur, hist) ==
    IF IsOk(cur)
    THEN LET pushed == Append(hist, cur)
         IN IF Len(pushed) > MAX_HISTORY THEN Tail(pushed) ELSE pushed
    ELSE hist

\* SetImage(img), entered with m_originalImg = cur and m_history = hist.
SetImage(img, cur, hist) ==
    /\ m_history' = PushHistory(cur, hist)
    /\ m_originalImg' = img
    /\ ZoomFitOn(img)
    /\ calls' = [calls EXCEPT !.set = @ + 1, !.invalid = @ \/ ~IsOk(img), !.arg = img]

\* Combine whose BLEND rounds the mean up.
CombineBlendRoundsUp(mode, d, s) ==
    CASE mode = "AND" -> BitAnd(d, s)
      [] mode = "OR" -> BitOr(d, s)
      [] mode = "XOR" -> BitXor(d, s)
      [] mode = "BLEND" -> ((d + s + 1) \div 2) % 256

\* Combine whose XOR case falls into the OR case.
CombineXorAsOr(mode, d, s) ==
    CASE mode = "AND" -> BitAnd(d, s)
      [] mode = "OR" -> BitOr(d, s)
      [] mode = "XOR" -> BitOr(d, s)
      [] mode = "BLEND" -> ((d + s) \div 2) % 256

\* One channel of the switch in PasteClipboard.
Combine(mode, d, s) ==
    CASE mode = "AND" -> BitAnd(d, s)
      [] mode = "OR" -> BitOr(d, s)
      [] mode = "XOR" -> BitXor(d, s)
      [] mode = "BLEND" -> ((d + s) \div 2) % 256

\* The pixel loop of PasteClipboard from clipboard pixel k on, over the
\* w x h destination buffer px.
RECURSIVE PasteLoop(_, _, _, _, _, _, _)
PasteLoop(px, w, h, clip, dest, mode, k) ==
    IF k >= clip.w * clip.h THEN px
    ELSE LET x == k % clip.w
             y == k \div clip.w
             dx == dest[1] + x
             dy == dest[2] + y
         IN IF dx >= w \/ dy >= h \/ dx < 0 \/ dy < 0
            THEN PasteLoop(px, w, h, clip, dest, mode, k + 1)
            ELSE PasteLoop([px EXCEPT ![dy * w + dx + 1] = Combine(mode, @, clip.px[y * clip.w + x + 1])],
                           w, h, clip, dest, mode, k + 1)

\* The white-out loop of CutSelection over the w x h buffer px.
CutLoop(px, w, h, sel) ==
    LET x0 == Clamp(sel.x, 0, w - 1)
        y0 == Clamp(sel.y, 0, h - 1)
        x1 == Clamp(sel.x + sel.width - 1, 0, w - 1)
        y1 == Clamp(sel.y + sel.height - 1, 0, h - 1)
    IN [k \in 1 .. (w * h) |->
           LET x == (k - 1) % w
               y == (k - 1) \div w
           IN IF y0 <= y /\ y <= y1 /\ x0 <= x /\ x <= x1 THEN 255 ELSE px[k]]

\* The rectangle OnLeftUp and OnMouseMove build from the start point and p.
DragRect(start, p) ==
    LET x1 == Max(0, Min(start[1], p[1]))
        y1 == Max(0, Min(start[2], p[2]))
        x2 == Max(x1, Max(start[1], p[1]))
        y2 == Max(y1, Max(start[2], p[2]))
    IN wxRect(x1, y1, x2 - x1 + 1, y2 - y1 + 1)

\* m_clipboard after CopySelection(); g are the values read past the buffer.
CopyResult(g) ==
    IF ~IsEmpty(m_selection) /\ IsOk(m_originalImg)
    THEN GetSubImage(m_originalImg, m_selection, FreshId, g)
    ELSE m_clipboard

\* The choices for the values a copy of the selection reads past the buffer.
CopyGarbage ==
    IF ~IsEmpty(m_selection) /\ SubImageOk(m_originalImg, m_selection)
    THEN [SubOutside(m_originalImg, m_selection) -> GarbageVals]
    ELSE {<< >>}

\* ------------------------------------------------------- circular average
InBounds(x, y, w, h) == x >= 0 /\ y >= 0 /\ x < w /\ y < h
GetGray(img, x, y) == img.px[y * img.w + x + 1]

\* The largest squared distance from (cx, cy) to a pixel of img. A rounded
\* sample lies less than 1 from the circle, so a circle with
\* (R - 1)^2 beyond it has no sample in bounds.
MaxDist2(img, cx, cy) ==
    LET dx == Max(cx, img.w - 1 - cx)
        dy == Max(cy, img.h - 1 - cy)
    IN dx * dx + dy * dy
OutOfReach(img, cx, cy, R) == (R - 1) * (R - 1) > MaxDist2(img, cx, cy)

\* visited.insert(key).second is false: the pixel was counted already.
AlreadyVisitedNever(visited, key) == FALSE

AlreadyVisited(visited, key) == key \in visited

\* The sample loop of CircularAverageNearest from sample k on: acc holds
\* visited, sum and count.
RECURSIVE SampleLoop(_, _, _, _, _, _)
SampleLoop(img, cx, cy, offs, k, acc) ==
    IF k > Len(offs) THEN acc
    ELSE LET x == cx + offs[k][1]
             y == cy + offs[k][2]
         IN IF ~InBounds(x, y, img.w, img.h) THEN SampleLoop(img, cx, cy, offs, k + 1, acc)
            ELSE IF AlreadyVisited(acc.visited, <<x, y>>) THEN SampleLoop(img, cx, cy, offs, k + 1, acc)
            ELSE SampleLoop(img, cx, cy, offs, k + 1,
                            [visited |-> acc.visited \cup {<<x, y>>},
                             sum |-> acc.sum + GetGray(img, x, y),
                             count |-> acc.count + 1])

\* quiet_NaN(): the double that is no number (no rational has denominator 0).
NaN == [n |-> 0, d |-> 0]

\* CircularAverageNearest(img, cx, cy, R, &samples): the value returned (a
\* rational, or NaN) and samples, which both callers set to 0 before the
\* call and the early returns leave alone.
CircularAverageNearest(img, cx, cy, R) ==
    IF ~IsOk(img) \/ R <= 0 THEN [avg |-> NaN, samples |-> 0]
    ELSE IF cx + R < 0 \/ cx - R >= img.w \/ cy + R < 0 \/ cy - R >= img.h
    THEN [avg |-> NaN, samples |-> 0]
    ELSE LET acc == IF OutOfReach(img, cx, cy, R) THEN [visited |-> {}, sum |-> 0, count |-> 0]
                    ELSE SampleLoop(img, cx, cy, CircleOffsets(R), 1, [visited |-> {}, sum |-> 0, count |-> 0])
         IN IF acc.count = 0 THEN [avg |-> NaN, samples |-> 0]
            ELSE [avg |-> Rat(acc.sum, acc.count), samples |-> acc.count]

\* The text entered in the sweep dialog: ok is false when it does not parse
\* as three longs.
SweepInputs ==
    { [ok |-> FALSE, Rmin |-> 0, Rmax |-> 0, step |-> 1],
      [ok |-> TRUE, Rmin |-> 0, Rmax |-> 3, step |-> 0],
      [ok |-> TRUE, Rmin |-> 2, Rmax |-> 1, step |-> 1],
      [ok |-> TRUE, Rmin |-> 0, Rmax |-> 3, step |-> 1],
      [ok |-> TRUE, Rmin |-> 0, Rmax |-> 23, step |-> 5],
      [ok |-> TRUE, Rmin |-> -1, Rmax |-> 1, step |-> 2],
      [ok |-> TRUE, Rmin |-> INT_MAX - 1, Rmax |-> INT_MAX, step |-> 1],
      [ok |-> TRUE, Rmin |-> INT_MAX - 6, Rmax |-> INT_MAX - 1, step |-> 5],
      [ok |-> TRUE, Rmin |-> 0, Rmax |-> (2 ^ IntBits) + 3, step |-> 1],
      [ok |-> TRUE, Rmin |-> 0, Rmax |-> 1, step |-> 2 ^ IntBits] }

\* The validation of OnRadialSweep that accepts any range.
SweepAcceptedAnyRange(input) == input.ok /\ input.step > 0

\* The validation of OnRadialSweep (lines 982-986).
SweepAccepted(input) == input.ok /\ input.step > 0 /\ input.Rmax >= input.Rmin

\* sweep before any radial sweep was started.
IdleSweep == [Rmin |-> 0, Rmax |-> 0, step |-> 1, R |-> 0, odd |-> FALSE, done |-> FALSE]

\* --------------------------------------------------------------------- Init
Init ==
    /\ pc = "ctor"
    /\ m_originalImg = NoImage
    /\ m_history = << >>
    /\ m_clipboard = NoImage
    /\ m_selection = EmptyRect
    /\ m_selecting = FALSE
    /\ m_startPoint = <<0, 0>>
    /\ m_zoomFactor = Rat(1, 1)
    /\ m_fitMode = TRUE
    /\ m_bitmap = NoBitmap
    /\ panelSize = InitialPanelSize
    /\ notice = ""
    /\ lastPaste = NoPaste
    /\ calls = [set |-> 0, undo |-> FALSE, invalid |-> FALSE, arg |-> NoImage]
    /\ m_radialAvgData = << >>
    /\ sweep = IdleSweep

\* What a handler that does not reach SetImage leaves of the history variables.
NoSetImage == UNCHANGED calls

\* What every handler but OnRadialSweep leaves of the radial profile.
NoSweep == UNCHANGED <<m_radialAvgData, sweep>>

\* ------------------------------------------------------------------ actions
\* LoadImage that does not compare gcount() with the size expected.
LoadImageTrustsRead(file) ==
    /\ pc = "ctor"
    /\ pc' = "run"
    /\ NoSweep
    /\ lastPaste' = NoPaste
    /\ UNCHANGED <<m_clipboard, m_selection, m_selecting, m_startPoint, panelSize>>
    /\ LET expected == WIDTH * HEIGHT * PIXEL_DEPTH
       IN IF file.sz <= 0 \/ file.sz < HEADER_OFFSET
          THEN /\ notice' = "File too small or invalid format"
               /\ NoSetImage
               /\ UNCHANGED <<m_originalImg, m_history, m_zoomFactor, m_fitMode, m_bitmap>>
          ELSE IF file.sz - HEADER_OFFSET < expected
          THEN /\ notice' = "File does not contain expected image data (size mismatch)."
               /\ NoSetImage
               /\ UNCHANGED <<m_originalImg, m_history, m_zoomFactor, m_fitMode, m_bitmap>>
          ELSE /\ notice' = ""
               /\ SetImage(MkImage(FreshId, WIDTH, HEIGHT, [k \in 1 .. (WIDTH * HEIGHT) |-> Grey(file.data[k])]),
                           m_originalImg, m_history)

\* ImageFrame::LoadImage(filepath), called once from the constructor.
LoadImage(file) ==
    /\ pc = "ctor"
    /\ pc' = "run"
    /\ NoSweep
    /\ lastPaste' = NoPaste
    /\ UNCHANGED <<m_clipboard, m_selection, m_selecting, m_startPoint, panelSize>>
    /\ LET expected == WIDTH * HEIGHT * PIXEL_DEPTH
       IN IF file.sz <= 0 \/ file.sz < HEADER_OFFSET
          THEN /\ notice' = "File too small or invalid format"
               /\ NoSetImage
               /\ UNCHANGED <<m_originalImg, m_history, m_zoomFactor, m_fitMode, m_bitmap>>
          ELSE IF file.sz - HEADER_OFFSET < expected
          THEN /\ notice' = "File does not contain expected image data (size mismatch)."
               /\ NoSetImage
               /\ UNCHANGED <<m_originalImg, m_history, m_zoomFactor, m_fitMode, m_bitmap>>
          ELSE IF file.gcount < expected
          THEN /\ notice' = "Failed to read image data."
               /\ NoSetImage
               /\ UNCHANGED <<m_originalImg, m_history, m_zoomFactor, m_fitMode, m_bitmap>>
          ELSE /\ notice' = ""
               /\ SetImage(MkImage(FreshId, WIDTH, HEIGHT, [k \in 1 .. (WIDTH * HEIGHT) |-> Grey(file.data[k])]),
                           m_originalImg, m_history)

\* ImagePanel::OnLeftDown
OnLeftDown(p) ==
    /\ pc = "run"
    /\ NoSweep
    /\ m_startPoint' = p
    /\ m_selecting' = TRUE
    /\ notice' = ""
    /\ lastPaste' = NoPaste
    /\ NoSetImage
    /\ UNCHANGED <<pc, m_originalImg, m_history, m_clipboard, m_selection, m_zoomFactor, m_fitMode, m_bitmap, panelSize>>

\* OnLeftUp that finalizes the rectangle but stays in Selecting.
OnLeftUpStaysSelecting(p) ==
    /\ pc = "run"
    /\ NoSweep
    /\ IF m_selecting
       THEN /\ m_selection' = DragRect(m_startPoint, p)
            /\ m_selecting' = TRUE
       ELSE UNCHANGED <<m_selection, m_selecting>>
    /\ notice' = ""
    /\ lastPaste' = NoPaste
    /\ NoSetImage
    /\ UNCHANGED <<pc, m_originalImg, m_history, m_clipboard, m_startPoint, m_zoomFactor, m_fitMode, m_bitmap, panelSize>>

\* ImagePanel::OnLeftUp
OnLeftUp(p) ==
    /\ pc = "run"
    /\ NoSweep
    /\ IF m_selecting
       THEN /\ m_selection' = DragRect(m_startPoint, p)
            /\ m_selecting' = FALSE
       ELSE UNCHANGED <<m_selection, m_selecting>>
    /\ notice' = ""
    /\ lastPaste' = NoPaste
    /\ NoSetImage
    /\ UNCHANGED <<pc, m_originalImg, m_history, m_clipboard, m_startPoint, m_zoomFactor, m_fitMode, m_bitmap, panelSize>>

\* ImagePanel::OnMouseMove; dragging is event.Dragging() && event.LeftIsDown().
OnMouseMove(p, dragging) ==
    /\ pc = "run"
    /\ NoSweep
    /\ IF dragging /\ m_selecting
       THEN m_selection' = DragRect(m_startPoint, p)
       ELSE UNCHANGED m_selection
    /\ notice' = ""
    /\ lastPaste' = NoPaste
    /\ NoSetImage
    /\ UNCHANGED <<pc, m_originalImg, m_history, m_clipboard, m_selecting, m_startPoint, m_zoomFactor, m_fitMode, m_bitmap, panelSize>>

\* ImagePanel::CopySelection (OnCopy, Ctrl+C, the Copy tool)
CopySelection ==
    /\ pc = "run"
    /\ NoSweep
    /\ \E g \in CopyGarbage : m_clipboard' = CopyResult(g)
    /\ notice' = ""
    /\ lastPaste' = NoPaste
    /\ NoSetImage
    /\ UNCHANGED <<pc, m_originalImg, m_history, m_selection, m_selecting, m_startPoint, m_zoomFactor, m_fitMode, m_bitmap, panelSize>>

\* ImagePanel::CutSelection
CutSelection(cap) ==
    /\ pc = "run"
    /\ NoSweep
    /\ calls.set < cap
    /\ notice' = ""
    /\ lastPaste' = NoPaste
    /\ \E g \in CopyGarbage : m_clipboard' = CopyResult(g)
    /\ IF ~IsOk(m_originalImg) \/ IsEmpty(m_selection)
       THEN /\ NoSetImage
            /\ UNCHANGED <<m_originalImg, m_history, m_zoomFactor, m_fitMode, m_bitmap>>
       ELSE LET px == CutLoop(m_originalImg.px, m_originalImg.w, m_originalImg.h, m_selection)
                id == m_originalImg.id
            IN SetImage(Store(m_originalImg, id, px), Store(m_originalImg, id, px), StoreAll(m_history, id, px))
    /\ UNCHANGED <<pc, m_selection, m_selecting, m_startPoint, panelSize>>

\* PasteClipboard that returns early only when there is no image: without a
\* clipboard its loop combines nothing, and SetImage is still called.
PasteClipboardNeedsNoClipboard(dest, mode, cap) ==
    /\ pc = "run"
    /\ NoSweep
    /\ calls.set < cap
    /\ notice' = ""
    /\ IF ~IsOk(m_originalImg)
       THEN /\ lastPaste' = [NoPaste EXCEPT !.tried = TRUE]
            /\ NoSetImage
            /\ UNCHANGED <<m_originalImg, m_history, m_zoomFactor, m_fitMode, m_bitmap>>
       ELSE LET px == PasteLoop(m_originalImg.px, m_originalImg.w, m_originalImg.h, m_clipboard, dest, mode, 0)
                id == m_originalImg.id
            IN /\ SetImage(Store(m_originalImg, id, px), Store(m_originalImg, id, px), StoreAll(m_history, id, px))
               /\ lastPaste' = [tried |-> TRUE, done |-> IsOk(m_clipboard), mode |-> mode, dest |-> dest,
                                pre |-> m_originalImg, clip |-> m_clipboard, xorOrig |-> NoImage]
    /\ UNCHANGED <<pc, m_clipboard, m_selection, m_selecting, m_startPoint, panelSize>>

\* ImagePanel::PasteClipboard(dest, mode); OnPaste and Ctrl+V call it with
\* dest = (10,10) and mode = BLEND.
PasteClipboard(dest, mode, cap) ==
    /\ pc = "run"
    /\ NoSweep
    /\ calls.set < cap
    /\ notice' = ""
    /\ IF ~IsOk(m_clipboard) \/ ~IsOk(m_originalImg)
       THEN /\ lastPaste' = [NoPaste EXCEPT !.tried = TRUE]
            /\ NoSetImage
            /\ UNCHANGED <<m_originalImg, m_history, m_zoomFactor, m_fitMode, m_bitmap>>
       ELSE LET px == PasteLoop(m_originalImg.px, m_originalImg.w, m_originalImg.h, m_clipboard, dest, mode, 0)
                id == m_originalImg.id
            IN /\ SetImage(Store(m_originalImg, id, px), Store(m_originalImg, id, px), StoreAll(m_history, id, px))
               /\ lastPaste' = [tried |-> TRUE, done |-> TRUE, mode |-> mode, dest |-> dest, pre |-> m_originalImg, clip |-> m_clipboard,
                                xorOrig |-> IF /\ mode = "XOR" /\ lastPaste.done /\ lastPaste.mode = "XOR"
                                               /\ lastPaste.dest = dest /\ SameContent(lastPaste.clip, m_clipboard)
                                            THEN lastPaste.pre ELSE NoImage]
    /\ UNCHANGED <<pc, m_clipboard, m_selection, m_selecting, m_startPoint, panelSize>>

\* NothingToUndo that refits the view before raising the notice.
NothingToUndoRefits ==
    /\ notice' = "No previous image to undo."
    /\ ZoomFitOn(m_originalImg)
    /\ UNCHANGED <<m_originalImg, m_history>>

\* The else branch of Undo: the message box, and nothing else.
NothingToUndo ==
    /\ notice' = "No previous image to undo."
    /\ UNCHANGED <<m_originalImg, m_history, m_zoomFactor, m_fitMode, m_bitmap>>

\* ImagePanel::Undo (OnUndo, Ctrl+Z, the Undo tool)
Undo ==
    /\ pc = "run"
    /\ NoSweep
    /\ lastPaste' = NoPaste
    /\ IF m_history # << >>
       THEN /\ m_originalImg' = m_history[Len(m_history)]
            /\ m_history' = SubSeq(m_history, 1, Len(m_history) - 1)
            /\ ZoomFitOn(m_history[Len(m_history)])
            /\ notice' = ""
            /\ calls' = [calls EXCEPT !.undo = TRUE, !.arg = NoImage]
       ELSE /\ NothingToUndo
            /\ calls' = [calls EXCEPT !.undo = TRUE]
    /\ UNCHANGED <<pc, m_clipboard, m_selection, m_selecting, m_startPoint, panelSize>>

\* ImageFrame::OnRotate90
OnRotate90(cap) ==
    /\ pc = "run"
    /\ NoSweep
    /\ calls.set < cap
    /\ notice' = ""
    /\ lastPaste' = NoPaste
    /\ IF IsOk(m_originalImg)
       THEN SetImage(Rotate90(m_originalImg, FreshId), m_originalImg, m_history)
       ELSE NoSetImage /\ UNCHANGED <<m_originalImg, m_history, m_zoomFactor, m_fitMode, m_bitmap>>
    /\ UNCHANGED <<pc, m_clipboard, m_selection, m_selecting, m_startPoint, panelSize>>

\* ImageFrame::OnFlipH, which calls Mirror(false)
OnFlipH(cap) ==
    /\ pc = "run"
    /\ NoSweep
    /\ calls.set < cap
    /\ notice' = ""
    /\ lastPaste' = NoPaste
    /\ IF IsOk(m_originalImg)
       THEN SetImage(Mirror(m_originalImg, FALSE, FreshId), m_originalImg, m_history)
       ELSE NoSetImage /\ UNCHANGED <<m_originalImg, m_history, m_zoomFactor, m_fitMode, m_bitmap>>
    /\ UNCHANGED <<pc, m_clipboard, m_selection, m_selecting, m_startPoint, panelSize>>

\* ImageFrame::OnFlipV, which calls Mirror(true)
OnFlipV(cap) ==
    /\ pc = "run"
    /\ NoSweep
    /\ calls.set < cap
    /\ notice' = ""
    /\ lastPaste' = NoPaste
    /\ IF IsOk(m_originalImg)
       THEN SetImage(Mirror(m_originalImg, TRUE, FreshId), m_originalImg, m_history)
       ELSE NoSetImage /\ UNCHANGED <<m_originalImg, m_history, m_zoomFactor, m_fitMode, m_bitmap>>
    /\ UNCHANGED <<pc, m_clipboard, m_selection, m_selecting, m_startPoint, panelSize>>

\* ImageFrame::OnResize with size entered in the dialog; the images resized
\* are those of one intensity.
OnResize(size, cap) ==
    /\ pc = "run"
    /\ NoSweep
    /\ calls.set < cap
    /\ lastPaste' = NoPaste
    /\ IF ~IsOk(m_originalImg)
       THEN /\ notice' = ""
            /\ NoSetImage
            /\ UNCHANGED <<m_originalImg, m_history, m_zoomFactor, m_fitMode, m_bitmap>>
       ELSE IF size[1] > 0 /\ size[2] > 0
       THEN /\ Uniform(m_originalImg)
            /\ notice' = ""
            /\ SetImage(Scale(m_originalImg, size[1], size[2], FreshId), m_originalImg, m_history)
       ELSE /\ notice' = "Invalid input format or dimensions. Use positive width,height"
            /\ NoSetImage
            /\ UNCHANGED <<m_originalImg, m_history, m_zoomFactor, m_fitMode, m_bitmap>>
    /\ UNCHANGED <<pc, m_clipboard, m_selection, m_selecting, m_startPoint, panelSize>>

\* (int)(v * invZoom) with invZoom = 1.0 / zoom, for v >= 0 and zoom > 0.
ToImageSpace(v, zoom) == (v * zoom.d) \div zoom.n

\* The rectangle imgRect OnCrop builds from the selection.
CropRect(rect, zoom) ==
    wxRect(ToImageSpace(rect.x, zoom), ToImageSpace(rect.y, zoom),
           ToImageSpace(rect.width, zoom), ToImageSpace(rect.height, zoom))

\* ImageFrame::OnCrop (the Crop tool): SetImage, a second ZoomFit() that
\* finds the image and the viewport SetImage left, and ClearSelection().
OnCrop(cap) ==
    /\ pc = "run"
    /\ NoSweep
    /\ calls.set < cap
    /\ lastPaste' = NoPaste
    /\ IF ~IsEmpty(m_selection) /\ IsOk(m_originalImg)
       THEN LET imgRect == CropRect(m_selection, m_zoomFactor)
            IN IF /\ imgRect.x >= 0 /\ imgRect.y >= 0
                  /\ GetRight(imgRect) <= m_originalImg.w - 1
                  /\ GetBottom(imgRect) <= m_originalImg.h - 1
               THEN /\ notice' = ""
                    /\ SetImage(GetSubImage(m_originalImg, imgRect, FreshId, << >>), m_originalImg, m_history)
                    /\ m_selection' = EmptyRect
               ELSE /\ notice' = "Invalid selection for cropping."
                    /\ NoSetImage
                    /\ UNCHANGED <<m_originalImg, m_history, m_zoomFactor, m_fitMode, m_bitmap, m_selection>>
       ELSE /\ notice' = ""
            /\ NoSetImage
            /\ UNCHANGED <<m_originalImg, m_history, m_zoomFactor, m_fitMode, m_bitmap, m_selection>>
    /\ UNCHANGED <<pc, m_clipboard, m_selecting, m_startPoint, panelSize>>

\* ImageFrame::OnLoadPlugin with plugin picked in the dialog, and
\* PluginLoader::LoadPlugin on the handle 'wxImage img = GetOriginalImage()',
\* which shares the buffer of the current image.
OnLoadPlugin(plugin, cap) ==
    /\ pc = "run"
    /\ NoSweep
    /\ calls.set < cap
    /\ lastPaste' = NoPaste
    /\ IF ~IsOk(m_originalImg) \/ ~plugin.loaded \/ ~plugin.symbol
       THEN /\ notice' = "Failed to load/apply plugin"
            /\ NoSetImage
            /\ UNCHANGED <<m_originalImg, m_history, m_zoomFactor, m_fitMode, m_bitmap>>
       ELSE LET id == m_originalImg.id
                px == FilterPixels(m_originalImg.px)
                inplace == plugin.writes = "data"
                cur == IF inplace THEN Store(m_originalImg, id, px) ELSE m_originalImg
                hist == IF inplace THEN StoreAll(m_history, id, px) ELSE m_history
                img == CASE plugin.writes = "none" -> m_originalImg
                         [] plugin.writes = "data" -> cur
                         [] plugin.writes = "copy" -> MkImage(FreshId, m_originalImg.w, m_originalImg.h, px)
            IN IF plugin.raises
               THEN /\ notice' = "Failed to load/apply plugin"
                    /\ m_originalImg' = cur
                    /\ m_history' = hist
                    /\ NoSetImage
                    /\ UNCHANGED <<m_zoomFactor, m_fitMode, m_bitmap>>
               ELSE /\ notice' = ""
                    /\ SetImage(img, cur, hist)
    /\ UNCHANGED <<pc, m_clipboard, m_selection, m_selecting, m_startPoint, panelSize>>

\* ImageFrame::OnRadialSweep up to the sweep loop: the checks, the dialog and
\* the clearing of the old profile.
OnRadialSweep(input) ==
    /\ pc = "run"
    /\ lastPaste' = NoPaste
    /\ NoSetImage
    /\ IF ~IsOk(m_originalImg)
       THEN /\ notice' = ""
            /\ UNCHANGED <<pc, m_radialAvgData, sweep>>
       ELSE IF ~SweepAccepted(input)
       THEN /\ notice' = "Invalid input. Use Rmin,Rmax,step like 0,600,5"
            /\ UNCHANGED <<pc, m_radialAvgData, sweep>>
       ELSE /\ notice' = ""
            /\ m_radialAvgData' = << >>
            /\ sweep' = [Rmin |-> input.Rmin, Rmax |-> input.Rmax, step |-> input.step,
                         R |-> ToInt(input.Rmin), odd |-> FALSE, done |-> FALSE]
            /\ pc' = "sweep"
    /\ UNCHANGED <<m_originalImg, m_history, m_clipboard, m_selection, m_selecting, m_startPoint,
                   m_zoomFactor, m_fitMode, m_bitmap, panelSize>>

\* One evaluation of the loop condition of OnRadialSweep, with the body and
\* R += (int)step when it holds and the rest of the handler when it does not.
\* No other handler runs meanwhile. The model keeps the first MaxProfile
\* points of m_radialAvgData.
SweepStep ==
    /\ pc = "sweep"
    /\ IF sweep.R <= ToInt(sweep.Rmax)
       THEN LET img == m_originalImg
                res == CircularAverageNearest(img, img.w \div 2, img.h \div 2, sweep.R)
                pt == IF res.avg # NaN /\ res.samples > 0
                      THEN [R |-> sweep.R, avg |-> res.avg, samples |-> res.samples]
                      ELSE [R |-> sweep.R, avg |-> NaN, samples |-> res.samples]
            IN /\ m_radialAvgData' = IF Len(m_radialAvgData) < MaxProfile
                                      THEN Append(m_radialAvgData, pt) ELSE m_radialAvgData
               /\ sweep' = [sweep EXCEPT !.R = ToInt(sweep.R + ToInt(sweep.step)), !.odd = ~@]
               /\ pc' = "sweep"
       ELSE /\ pc' = "run"
            /\ sweep' = [sweep EXCEPT !.done = TRUE]
            /\ UNCHANGED m_radialAvgData
    /\ notice' = ""
    /\ lastPaste' = NoPaste
    /\ NoSetImage
    /\ UNCHANGED <<m_originalImg, m_history, m_clipboard, m_selection, m_selecting, m_startPoint,
                   m_zoomFactor, m_fitMode, m_bitmap, panelSize>>

\* ImagePanel::ZoomIn (tool button, mouse wheel up)
ZoomIn ==
    /\ pc = "run"
    /\ NoSweep
    /\ LET z == RatMul(m_zoomFactor, Rat(6, 5))
       IN /\ z.n <= MaxZoomTerm /\ z.d <= MaxZoomTerm
          /\ m_zoomFactor' = ApplyZoom(m_originalImg, z, FALSE)
          /\ m_bitmap' = ApplyZoomBitmap(m_originalImg, z, FALSE)
    /\ m_fitMode' = FALSE
    /\ notice' = ""
    /\ lastPaste' = NoPaste
    /\ NoSetImage
    /\ UNCHANGED <<pc, m_originalImg, m_history, m_clipboard, m_selection, m_selecting, m_startPoint, panelSize>>

\* ImagePanel::ZoomOut (tool button, mouse wheel down)
ZoomOut ==
    /\ pc = "run"
    /\ NoSweep
    /\ LET q == RatMul(m_zoomFactor, Rat(5, 6))
           z == IF RatLess(q, Rat(1, 100)) THEN Rat(1, 100) ELSE q
       IN /\ z.n <= MaxZoomTerm /\ z.d <= MaxZoomTerm
          /\ m_zoomFactor' = ApplyZoom(m_originalImg, z, FALSE)
          /\ m_bitmap' = ApplyZoomBitmap(m_originalImg, z, FALSE)
    /\ m_fitMode' = FALSE
    /\ notice' = ""
    /\ lastPaste' = NoPaste
    /\ NoSetImage
    /\ UNCHANGED <<pc, m_originalImg, m_history, m_clipboard, m_selection, m_selecting, m_startPoint, panelSize>>

\* ImagePanel::ZoomFit (the Fit tool)
ZoomFit ==
    /\ pc = "run"
    /\ NoSweep
    /\ ZoomFitOn(m_originalImg)
    /\ notice' = ""
    /\ lastPaste' = NoPaste
    /\ NoSetImage
    /\ UNCHANGED <<pc, m_originalImg, m_history, m_clipboard, m_selection, m_selecting, m_startPoint, panelSize>>

\* ImageFrame::OnResizeEvent: the handler bound on the frame runs ZoomFit()
\* and then skips the event, after which the frame lays the panel out at
\* its new client size.
OnResizeEvent(size) ==
    /\ pc = "run"
    /\ NoSweep
    /\ size # panelSize
    /\ ZoomFitOn(m_originalImg)
    /\ panelSize' = size
    /\ notice' = ""
    /\ lastPaste' = NoPaste
    /\ NoSetImage
    /\ UNCHANGED <<pc, m_originalImg, m_history, m_clipboard, m_selection, m_selecting, m_startPoint>>

\* ----------------------------------------------------------- specifications
\* An editing session: selection, clipboard, paste, cut, flip and undo, with
\* at most MaxSetCalls calls of SetImage.
Next ==
    \/ \E file \in Files : LoadImage(file)
    \/ \E p \in PointerPts : OnLeftDown(p)
    \/ \E p \in PointerPts : OnLeftUp(p)
    \/ \E p \in PointerPts, dragging \in BOOLEAN : OnMouseMove(p, dragging)
    \/ CopySelection
    \/ CutSelection(MaxSetCalls)
    \/ \E dest \in DestPts, mode \in BlendModes : PasteClipboard(dest, mode, MaxSetCalls)
    \/ Undo
    \/ OnFlipH(MaxSetCalls)
    \/ OnFlipV(MaxSetCalls)
    \/ OnRotate90(MaxSetCalls)

Spec == Init /\ [][Next]_vars

\* A long session of flips, undos and view changes: enough calls of SetImage
\* to fill the history and evict from it.
NextHist ==
    \/ \E file \in Files : LoadImage(file)
    \/ Undo
    \/ OnFlipH(MaxHistCalls)
    \/ ZoomIn
    \/ ZoomOut
    \/ ZoomFit
    \/ \E size \in PanelSizes : OnResizeEvent(size)

SpecHist == Init /\ [][NextHist]_vars

\* A session of selecting, copying, zooming, resizing and undoing around a
\* few flips.
NextView ==
    \/ \E file \in Files : LoadImage(file)
    \/ \E p \in CopyPts : OnLeftDown(p)
    \/ \E p \in CopyPts : OnLeftUp(p)
    \/ \E p \in CopyPts, dragging \in BOOLEAN : OnMouseMove(p, dragging)
    \/ CopySelection
    \/ Undo
    \/ OnFlipV(MaxSetCalls)
    \/ ZoomIn
    \/ ZoomOut
    \/ ZoomFit
    \/ \E size \in PanelSizes : OnResizeEvent(size)

SpecView == Init /\ [][NextView]_vars

\* A session of selecting, copying and pasting.
NextPaste ==
    \/ \E file \in Files : LoadImage(file)
    \/ \E p \in CopyPts : OnLeftDown(p)
    \/ \E p \in CopyPts : OnLeftUp(p)
    \/ CopySelection
    \/ \E dest \in DestPts, mode \in BlendModes : PasteClipboard(dest, mode, MaxPasteCalls)

SpecPaste == Init /\ [][NextPaste]_vars

\* A session of zooming in viewports much smaller than the image: the image
\* is resized, flipped and undone, the frame is resized, the view is zoomed.
NextZoom ==
    \/ \E file \in Files : LoadImage(file)
    \/ \E size \in ResizeDims : OnResize(size, MaxSetCalls)
    \/ OnFlipH(MaxSetCalls)
    \/ Undo
    \/ ZoomIn
    \/ ZoomOut
    \/ ZoomFit
    \/ \E size \in ZoomPanelSizes : OnResizeEvent(size)

SpecZoom == Init /\ [][NextZoom]_vars

\* A session of radial sweeps over the loaded image and its flips.
NextSweep ==
    \/ \E file \in Files : LoadImage(file)
    \/ \E input \in SweepInputs : OnRadialSweep(input)
    \/ SweepStep
    \/ OnFlipH(MaxSetCalls)
    \/ Undo

SpecSweep == Init /\ [][NextSweep]_vars

\* The same session when a sweep loop that can take a step takes it.
SpecSweepFair == SpecSweep /\ WF_vars(SweepStep)

\* A session of plugin filters, flips and undos.
NextPlugin ==
    \/ \E file \in Files : LoadImage(file)
    \/ \E plugin \in Plugins : OnLoadPlugin(plugin, MaxSetCalls)
    \/ OnFlipH(MaxSetCalls)
    \/ Undo

SpecPlugin == Init /\ [][NextPlugin]_vars

\* A session of selecting, zooming, resizing the frame and cropping, with
\* flips and undos.
NextCrop ==
    \/ \E file \in Files : LoadImage(file)
    \/ \E p \in CopyPts : OnLeftDown(p)
    \/ \E p \in CopyPts : OnLeftUp(p)
    \/ OnCrop(MaxSetCalls)
    \/ OnFlipH(MaxSetCalls)
    \/ Undo
    \/ ZoomIn
    \/ ZoomOut
    \/ ZoomFit
    \/ \E size \in PanelSizes : OnResizeEvent(size)

SpecCrop == Init /\ [][NextCrop]_vars

\* ------------------------------------------------------------------ claims
\* C1: in every reachable state the undo history holds at most MAX_HISTORY
\* (16) snapshots.
C1_HistoryBounded == Len(m_history) <= MAX_HISTORY

\* C1 witness: the history is full after more pushes than it can hold, so a
\* push has evicted.
C1_Witness == Len(m_history) = MAX_HISTORY /\ calls.set = MAX_HISTORY + 2 /\ ~calls.undo

\* C2: an Undo that directly follows a successful paste makes the current
\* image equal, pixel for pixel, to the image that was current before the
\* paste.
C2_UndoRestoresPrePaste ==
    [][(lastPaste.done /\ Undo) => SameContent(m_originalImg', lastPaste.pre)]_vars

\* C3: in every reachable state no entry of the undo history has the content
\* (dimensions and pixels) of the current image.
C3_CurrentNotInHistory ==
    \A i \in 1 .. Len(m_history) : ~SameContent(m_history[i], m_originalImg)

\* C4: after k >= 1 successive SetImage calls with valid images from an empty
\* session and no Undo, the history length is min(k - 1, 16).
C4_HistoryLength ==
    (calls.set >= 1 /\ ~calls.undo /\ ~calls.invalid)
        => Len(m_history) = Min(calls.set - 1, MAX_HISTORY)

\* C4 witness: three calls more than the history holds, none undone.
C4_Witness == calls.set = MAX_HISTORY + 3 /\ ~calls.undo /\ ~calls.invalid /\ IsOk(m_originalImg)

\* C5: a SetImage call makes the new image current and leaves the view in fit
\* mode; with a current image present it appends that image as the newest
\* history entry, removing exactly the oldest entry when the history held 16
\* and keeping the others in order; without a current image it pushes nothing.
C5_SetImage ==
    [][calls'.set # calls.set =>
        /\ m_originalImg' = calls'.arg
        /\ m_fitMode' = TRUE
        /\ IF IsOk(m_originalImg)
           THEN LET n == Len(m_history)
                IN IF n = MAX_HISTORY
                   THEN /\ Len(m_history') = MAX_HISTORY
                        /\ \A i \in 1 .. (MAX_HISTORY - 1) : m_history'[i] = m_history[i + 1]
                        /\ m_history'[MAX_HISTORY] = m_originalImg
                   ELSE /\ Len(m_history') = n + 1
                        /\ \A i \in 1 .. n : m_history'[i] = m_history[i]
                        /\ m_history'[n + 1] = m_originalImg
           ELSE m_history' = m_history]_vars

\* C5 witness: SetImage has just run on a full history: the image it was given
\* is current, the view fits, and the history is still full.
C5_Witness ==
    /\ calls.set > MAX_HISTORY + 1
    /\ IsOk(calls.arg) /\ m_originalImg = calls.arg
    /\ Len(m_history) = MAX_HISTORY
    /\ m_history[MAX_HISTORY].id # m_originalImg.id
    /\ m_fitMode

\* C6: Undo on a non-empty history makes the newest snapshot current, removes
\* exactly that entry, leaves the view in fit mode, and keeps the image that
\* was current before in no field of the panel.
C6_Undo ==
    [][(Undo /\ m_history # << >>) =>
        /\ m_originalImg' = m_history[Len(m_history)]
        /\ m_history' = SubSeq(m_history, 1, Len(m_history) - 1)
        /\ m_fitMode' = TRUE
        /\ m_originalImg.id \notin ({m_originalImg'.id, m_clipboard'.id}
                                     \cup {m_history'[i].id : i \in 1 .. Len(m_history')})]_vars

\* C7: Undo on an empty history changes nothing of the session (image,
\* selection, history, clipboard, zoom factor, fit mode) and raises the
\* "nothing to undo" notice.
C7_UndoEmpty ==
    [][(Undo /\ m_history = << >>) =>
        /\ UNCHANGED sessionVars
        /\ notice' = "No previous image to undo."]_vars

\* C7 witness: the notice is up in a session that has an image, a selection,
\* a clipboard and a zoomed view.
C7_Witness ==
    /\ notice = "No previous image to undo."
    /\ m_history = << >>
    /\ IsOk(m_originalImg) /\ IsOk(m_clipboard)
    /\ ~IsEmpty(m_selection)
    /\ ~m_fitMode

\* The selection lies fully within the bounds of image img.
WithinImage(r, img) ==
    r.x >= 0 /\ r.y >= 0 /\ r.x + r.width <= img.w /\ r.y + r.height <= img.h

\* C8: CopySelection replaces the clipboard by the selected sub-image when the
\* selection is non-empty and within the image, and leaves the clipboard
\* exactly as it was in every other case.
C8_CopySelection ==
    [][CopySelection =>
        IF ~IsEmpty(m_selection) /\ IsOk(m_originalImg) /\ WithinImage(m_selection, m_originalImg)
        THEN /\ IsOk(m_clipboard')
             /\ m_clipboard'.w = m_selection.width /\ m_clipboard'.h = m_selection.height
             /\ \A x \in 0 .. (m_selection.width - 1), y \in 0 .. (m_selection.height - 1) :
                    m_clipboard'.px[y * m_selection.width + x + 1]
                        = m_originalImg.px[(m_selection.y + y) * m_originalImg.w + m_selection.x + x + 1]
        ELSE m_clipboard' = m_clipboard]_vars

\* The bits set in an 8-bit intensity, and the intensity of a set of bits.
BitsOf(n) == {i \in 0 .. 7 : (n \div (2 ^ i)) % 2 = 1}
RECURSIVE Weight(_)
Weight(S) == IF S = {} THEN 0 ELSE LET i == CHOOSE j \in S : TRUE IN (2 ^ i) + Weight(S \ {i})

\* The intensity the paste table gives for destination old and source src.
Blended(mode, old, src) ==
    CASE mode = "AND" -> Weight(BitsOf(old) \cap BitsOf(src))
      [] mode = "OR" -> Weight(BitsOf(old) \cup BitsOf(src))
      [] mode = "XOR" -> Weight((BitsOf(old) \cup BitsOf(src)) \ (BitsOf(old) \cap BitsOf(src)))
      [] mode = "BLEND" -> (old + src) \div 2

\* C9: after a paste at dest with mode m the image keeps its dimensions; every
\* pixel under the clipboard's footprint holds old AND / OR / XOR src or
\* floor((old + src) / 2), within 0..255; every other pixel keeps its value
\* (clipboard pixels landing outside the image are skipped).
C9_PastePixels ==
    lastPaste.done =>
        LET old == lastPaste.pre
            clip == lastPaste.clip
            dest == lastPaste.dest
        IN /\ IsOk(m_originalImg)
           /\ m_originalImg.w = old.w /\ m_originalImg.h = old.h
           /\ \A x \in 0 .. (old.w - 1), y \in 0 .. (old.h - 1) :
                LET cx == x - dest[1]
                    cy == y - dest[2]
                    new == m_originalImg.px[y * old.w + x + 1]
                IN /\ new \in 0 .. 255
                   /\ IF cx \in 0 .. (clip.w - 1) /\ cy \in 0 .. (clip.h - 1)
                      THEN new = Blended(lastPaste.mode, old.px[y * old.w + x + 1], clip.px[cy * clip.w + cx + 1])
                      ELSE new = old.px[y * old.w + x + 1]

\* C9 witness: a BLEND paste of a clipboard of several pixels that overhangs
\* the image has changed some pixel and left another alone.
C9_Witness ==
    /\ lastPaste.done /\ lastPaste.mode = "BLEND"
    /\ lastPaste.clip.w > 1 /\ lastPaste.clip.h > 1
    /\ lastPaste.dest[1] < 0
    /\ \E k \in 1 .. Len(m_originalImg.px) : m_originalImg.px[k] # lastPaste.pre.px[k]
    /\ \E k \in 1 .. Len(m_originalImg.px) : m_originalImg.px[k] = lastPaste.pre.px[k]

\* C10: two XOR pastes of the same clipboard at the same destination, one
\* directly after the other, leave every pixel as it was before the first.
C10_XorTwice ==
    IsOk(lastPaste.xorOrig) => SameContent(m_originalImg, lastPaste.xorOrig)

\* C10 witness: the second XOR paste has run and undone a change the first
\* one made.
C10_Witness ==
    /\ IsOk(lastPaste.xorOrig)
    /\ lastPaste.mode = "XOR"
    /\ ~SameContent(lastPaste.pre, lastPaste.xorOrig)

\* The pixels of image img under rectangle r, row by row.
RegionOf(img, r) ==
    [k \in 1 .. (r.width * r.height) |->
        img.px[(r.y + ((k - 1) \div r.width)) * img.w + r.x + ((k - 1) % r.width) + 1]]

\* C11: CutSelection with a non-empty selection inside a valid image leaves
\* the pre-cut pixels of the selected region in the clipboard, every pixel of
\* the region at 255 in the current image, and the pre-cut image as the newest
\* history entry; with an empty selection or no image it leaves the current
\* image and the history unchanged.
C11_CutSelection ==
    [][CutSelection(MaxSetCalls) =>
        IF IsOk(m_originalImg) /\ ~IsEmpty(m_selection)
        THEN WithinImage(m_selection, m_originalImg) =>
                /\ IsOk(m_clipboard')
                /\ m_clipboard'.w = m_selection.width /\ m_clipboard'.h = m_selection.height
                /\ m_clipboard'.px = RegionOf(m_originalImg, m_selection)
                /\ \A k \in 1 .. (m_selection.width * m_selection.height) :
                       RegionOf(m_originalImg', m_selection)[k] = 255
                /\ m_history' # << >>
                /\ SameContent(m_history'[Len(m_history')], m_originalImg)
        ELSE UNCHANGED <<m_originalImg, m_history>>]_vars

\* The pointer positions the mouse events of the specifications carry.
AllPts == PointerPts \cup CopyPts

\* C12: the selection is a two-state machine. A pointer-down enters Selecting
\* and records the start point; a drag move while Selecting recomputes the
\* selection and stays in Selecting; a pointer-up while Selecting sets the
\* rectangle a move to that point would set and returns to Idle; a move or a
\* pointer-up while Idle leaves the rectangle alone; no other operation
\* changes the Idle/Selecting state.
C12_SelectionMachine ==
    [][/\ \A p \in AllPts : OnLeftDown(p) => (m_selecting' /\ m_startPoint' = p)
       /\ \A p \in AllPts : (m_selecting /\ OnMouseMove(p, TRUE)) =>
              (m_selecting' /\ m_selection' = DragRect(m_startPoint, p))
       /\ \A p \in AllPts : (m_selecting /\ OnLeftUp(p)) =>
              /\ ~m_selecting'
              /\ m_selection' = DragRect(m_startPoint, p)
       /\ \A p \in AllPts, d \in BOOLEAN : (~m_selecting /\ (OnMouseMove(p, d) \/ OnLeftUp(p))) =>
              (~m_selecting' /\ m_selection' = m_selection)
       /\ (m_selecting' # m_selecting) => \E p \in AllPts : OnLeftDown(p) \/ OnLeftUp(p)]_vars

\* C12 witness: a drag from (-1,0) to (1,1) has been finalized and the machine
\* is back in Idle.
C12_Witness ==
    /\ ~m_selecting
    /\ m_startPoint = <<-1, 0>>
    /\ m_selection = wxRect(0, 0, 2, 2)

\* C13: after every drag move or pointer-up in Selecting, the selection is the
\* box spanning the start point and the pointer, clamped to the bounds of the
\* current W x H image: 0 <= x, 0 <= y, x + width <= W and y + height <= H.
C13_SelectionClamped ==
    [][\A p \in AllPts :
          (m_selecting /\ IsOk(m_originalImg) /\ (OnLeftUp(p) \/ OnMouseMove(p, TRUE))) =>
              /\ m_selection'.x = Max(0, Min(m_startPoint[1], p[1]))
              /\ m_selection'.y = Max(0, Min(m_startPoint[2], p[2]))
              /\ m_selection'.width >= 0 /\ m_selection'.height >= 0
              /\ m_selection'.x + m_selection'.width <= m_originalImg.w
              /\ m_selection'.y + m_selection'.height <= m_originalImg.h]_vars

\* C14: in every state reached by zooming in, zooming out, fitting, resizing
\* the viewport, SetImage and Undo, the zoom factor is at least 0.01 whenever
\* the view is not in fit mode.
C14_ZoomFloor == ~m_fitMode => ~RatLess(m_zoomFactor, Rat(1, 100))

\* C15: when a sweep accepted by validation has run, the profile holds exactly
\* floor((Rmax - Rmin) / step) + 1 points, the i-th with R = Rmin + i*step
\* (so R increases strictly and stays at or below Rmax), points with a NaN
\* average included, and nothing of the previous profile.
C15_SweepProfile ==
    (pc = "run" /\ sweep.done) =>
        LET n == ((sweep.Rmax - sweep.Rmin) \div sweep.step) + 1
        IN /\ Len(m_radialAvgData) = Min(n, MaxProfile)
           /\ \A i \in 1 .. Len(m_radialAvgData) :
                  m_radialAvgData[i].R = sweep.Rmin + (i - 1) * sweep.step

\* C16: the loop of every sweep accepted by validation runs to completion.
C16_SweepTerminates == (pc = "sweep") ~> (pc = "run")

\* C17: a sweep requested with step <= 0, Rmax < Rmin or malformed input is
\* rejected with the warning: the loop is not entered, and the stored
\* profile, the current image and the history stay as they were.
C17_SweepRejected ==
    [][\A input \in SweepInputs :
          (OnRadialSweep(input) /\ IsOk(m_originalImg)
              /\ (~input.ok \/ input.step <= 0 \/ input.Rmax < input.Rmin)) =>
                /\ notice' = "Invalid input. Use Rmin,Rmax,step like 0,600,5"
                /\ pc' = "run"
                /\ UNCHANGED <<m_radialAvgData, m_originalImg, m_history>>]_vars

\* C17 witness: the warning is up and the profile of an earlier sweep, NaN
\* points included, is still stored.
C17_Witness ==
    /\ notice = "Invalid input. Use Rmin,Rmax,step like 0,600,5"
    /\ Len(m_radialAvgData) = 4
    /\ m_radialAvgData[1].avg = NaN
    /\ m_history # << >>

\* The sum of the intensities of a set of pixels of img.
RECURSIVE SumGray(_, _)
SumGray(img, S) ==
    IF S = {} THEN 0
    ELSE LET p == CHOOSE q \in S : TRUE IN GetGray(img, p[1], p[2]) + SumGray(img, S \ {p})

\* The distinct in-bounds pixels among the rounded samples of the circle.
SampledPixels(img, cx, cy, R) ==
    IF R <= 0 THEN {}
    ELSE LET offs == CircleOffsets(R)
         IN {p \in {<<cx + offs[k][1], cy + offs[k][2]>> : k \in 1 .. Len(offs)} :
                InBounds(p[1], p[2], img.w, img.h)}

\* Centres and radii the circular average is evaluated at.
CentreCoords == {-6, 1, 2}
Radii == -1 .. 5

\* C18: for the rounded samples of a circle, the circular average counts each
\* distinct in-bounds pixel once, discards the others, reports the number of
\* distinct in-bounds pixels and the sum of their intensities divided by that
\* number, and returns NaN with 0 samples exactly when that number is zero
\* (so for R <= 0 and for a circle entirely outside the image).
C18_CircularAverage ==
    IsOk(m_originalImg) =>
        \A cx \in CentreCoords, cy \in CentreCoords, R \in Radii :
            LET S == SampledPixels(m_originalImg, cx, cy, R)
                res == CircularAverageNearest(m_originalImg, cx, cy, R)
            IN /\ res.samples = Cardinality(S)
               /\ (res.avg = NaN) <=> (S = {})
               /\ S # {} => res.avg = Rat(SumGray(m_originalImg, S), Cardinality(S))

\* C18 witness: a sweep over the varied image has stored the average 170 of
\* the three pixels its R = 1 circle meets and a NaN point, and the R = 2
\* circle around (2,1) meets pixel (0,1) at two angles and counts it once.
C18_Witness ==
    /\ sweep.done
    /\ \E i \in 1 .. Len(m_radialAvgData) :
           m_radialAvgData[i] = [R |-> 1, avg |-> Rat(170, 1), samples |-> 3]
    /\ \E i \in 1 .. Len(m_radialAvgData) :
           m_radialAvgData[i].avg = NaN /\ m_radialAvgData[i].samples = 0
    /\ CircularAverageNearest(m_originalImg, 2, 1, 2) = [avg |-> Rat(255, 2), samples |-> 2]

\* C19: loading a file shorter than the header offset plus width * height *
\* pixel stride, or whose read delivers fewer bytes than that, ends in an error
\* notice without a call of SetImage: the current image, the history and the
\* view state are unchanged.
C19_ShortFileRejected ==
    [][\A file \in Files :
          (LoadImage(file)
              /\ (file.sz < HEADER_OFFSET + WIDTH * HEIGHT * PIXEL_DEPTH
                     \/ file.gcount < WIDTH * HEIGHT * PIXEL_DEPTH)) =>
                /\ notice' # ""
                /\ calls'.set = calls.set
                /\ UNCHANGED sessionVars]_vars

\* C19 witness: the load of the file whose read came up one byte short has
\* ended with the read error and no image.
C19_Witness ==
    /\ pc = "run"
    /\ notice = "Failed to read image data."
    /\ calls.set = 0
    /\ ~IsOk(m_originalImg)

\* C20: when a plugin filter fails (the library does not load, ApplyFilter is
\* missing, or the filter throws, possibly after writing pixels of the image
\* it was handed), SetImage is not called, the current image keeps its pixels
\* and the history is unchanged.
C20_PluginFailure ==
    [][\A plugin \in Plugins :
          (OnLoadPlugin(plugin, MaxSetCalls) /\ IsOk(m_originalImg)
              /\ (~plugin.loaded \/ ~plugin.symbol \/ plugin.raises)) =>
                /\ calls'.set = calls.set
                /\ SameContent(m_originalImg', m_originalImg)
                /\ m_history' = m_history]_vars

\* The factor ZoomFit() derives for image img in a viewport of that size.
FitFactor(img, size) ==
    LET scale == RatMin(Rat(size[1], img.w), Rat(size[2], img.h))
    IN IF scale.n <= 0 THEN Rat(1, 1) ELSE scale

\* C21: whenever crop maps a selection to image space, after any sequence of
\* zooms, fits, viewport resizes, SetImage calls and undos, the zoom factor it
\* divides by is the factor that scaled the image on display, and in fit mode
\* it is the factor derived from the current viewport.
C21_CropZoomFactor ==
    [][(OnCrop(MaxSetCalls) /\ ~IsEmpty(m_selection) /\ IsOk(m_originalImg)) =>
          /\ m_bitmap.zoom = m_zoomFactor
          /\ m_fitMode => m_zoomFactor = FitFactor(m_originalImg, panelSize)]_vars

\* C22: a paste invoked while the clipboard is absent, or while no image is
\* loaded, is a no-op: the current image, the history (no snapshot pushed, no
\* call of SetImage), the clipboard, the selection and the view state are
\* unchanged.
C22_PasteWithoutClipboard ==
    [][(~IsOk(m_clipboard) \/ ~IsOk(m_originalImg)) =>
          \A dest \in DestPts, mode \in BlendModes :
              PasteClipboard(dest, mode, MaxPasteCalls) =>
                  /\ UNCHANGED sessionVars
                  /\ calls'.set = calls.set]_vars

\* C22 witness: PasteClipboard has just returned without pasting in a session
\* that has an image and a selection but no clipboard.
C22_Witness ==
    /\ lastPaste.tried /\ ~lastPaste.done
    /\ IsOk(m_originalImg) /\ ~IsOk(m_clipboard)
    /\ ~IsEmpty(m_selection)
    /\ m_history = << >>

\* C23: once an image has been loaded, the current image and every history
\* entry is a valid image at least one pixel wide and high, whatever is
\* selected, zoomed, cropped, flipped or undone; a crop whose mapped rectangle
\* has no width or no height submits no invalid image to SetImage.
C23_ImagesValid ==
    calls.set >= 1 =>
        /\ IsOk(m_originalImg) /\ m_originalImg.w >= 1 /\ m_originalImg.h >= 1
        /\ \A i \in 1 .. Len(m_history) :
               IsOk(m_history[i]) /\ m_history[i].w >= 1 /\ m_history[i].h >= 1

\* Pixel (x, y) lies inside rectangle r.
InRect(x, y, r) == r.x <= x /\ x < r.x + r.width /\ r.y <= y /\ y < r.y + r.height

\* C24: CutSelection sets to 255 only pixels inside the selection rectangle:
\* every pixel of the image outside the selection keeps its value, also when
\* the selection lies partly or wholly beyond the right or bottom edge.
C24_CutOnlySelection ==
    [][(CutSelection(MaxSetCalls) /\ IsOk(m_originalImg)) =>
          \A x \in 0 .. (m_originalImg.w - 1), y \in 0 .. (m_originalImg.h - 1) :
              ~InRect(x, y, m_selection) =>
                  GetGray(m_originalImg', x, y) = GetGray(m_originalImg, x, y)]_vars
====
